---- MODULE Spec2Model ----
(***************************************************************************)
(* Model of the pika console logger (class Pika and its style registry).   *)
(*                                                                         *)
(* A string is a sequence of characters; a character is a one-element      *)
(* TLA+ string.  The characters that have no ASCII spelling are written as *)
(* named tokens: "ESC" is the byte 0x1b, "\n" the line feed, and the       *)
(* figures are "TICK", "INFO", "CROSS", "WARNING", "ELLIPSIS", "POINTER".  *)
(***************************************************************************)
EXTENDS Integers, Sequences, FiniteSets, TLC

\* loggers  the heap of logger objects, in order of construction
\* stdout   the writes made on process.stdout, in order
\* stderr   the writes made on process.stderr, in order
\* env      the process environment (colour variables, terminal, call stack)
\* last     the last operation called: its name, receiver, result, inputs
\* pre      for each logger that received a builder call, its fields at the
\*          first such call
\* calls    the number of logging calls made, and of those not below the
\*          receiver's level
VARIABLES loggers, stdout, stderr, env, last, pre, calls

vars == <<loggers, stdout, stderr, env, last, pre, calls>>

(***************************************************************************)
(* Bounds of the model.                                                    *)
(***************************************************************************)
\* MaxSteps bounds the operations of a run of Spec (builder and logging
\* calls together), MaxCalls the logging calls of a run of SpecFormat.
MaxSteps == 3
MaxCalls == 1

(***************************************************************************)
(* String primitives of the host language.                                 *)
(***************************************************************************)
\* Array.prototype.join
RECURSIVE Join(_, _)
Join(parts, sep) ==
  IF parts = <<>> THEN <<>>
  ELSE IF Len(parts) = 1 THEN parts[1]
  ELSE LET m == Len(parts) \div 2
       IN  Join(SubSeq(parts, 1, m), sep) \o sep \o Join(SubSeq(parts, m + 1, Len(parts)), sep)

StartsAt(t, s, i) ==
  /\ i >= 1
  /\ i + Len(s) - 1 <= Len(t)
  /\ SubSeq(t, i, i + Len(s) - 1) = s

Contains(t, s) == \E i \in 1..(Len(t) + 1) : StartsAt(t, s, i)

\* The first index >= i at which s occurs in t, or 0.
IndexOf(t, s, i) ==
  LET at == {j \in i..Len(t) : StartsAt(t, s, j)}
  IN  IF at = {} THEN 0 ELSE CHOOSE j \in at : \A k \in at : j <= k

RECURSIVE ReplaceFrom(_, _, _, _)
ReplaceFrom(t, s, r, i) ==
  LET j == IndexOf(t, s, i)
  IN  IF j = 0 THEN SubSeq(t, i, Len(t))
      ELSE SubSeq(t, i, j - 1) \o r \o ReplaceFrom(t, s, r, j + Len(s))

\* r before every character of t and at its end
Interleave(t, r) ==
  LET m == Len(r)
  IN  [k \in 1..(Len(t) * (m + 1) + m) |->
         IF (k - 1) % (m + 1) < m THEN r[((k - 1) % (m + 1)) + 1]
         ELSE t[((k - 1) \div (m + 1)) + 1]]

\* String.prototype.replace with a string pattern: the first occurrence only.
replaceFirst(t, s, r) ==
  LET j == IndexOf(t, s, 1)
  IN  IF j = 0 THEN t ELSE SubSeq(t, 1, j - 1) \o r \o SubSeq(t, j + Len(s), Len(t))

\* String.prototype.replaceAll with a string pattern: the occurrences are
\* taken left to right without overlap; the empty pattern matches before
\* every character and at the end.
replaceAll(t, s, r) ==
  IF s = <<>> THEN Interleave(t, r) ELSE ReplaceFrom(t, s, r, 1)

RECURSIVE SplitFrom(_, _, _)
SplitFrom(t, sep, i) ==
  LET j == IndexOf(t, sep, i)
  IN  IF j = 0 THEN <<SubSeq(t, i, Len(t))>>
      ELSE <<SubSeq(t, i, j - 1)>> \o SplitFrom(t, sep, j + Len(sep))

\* String.prototype.split with a string separator; the empty separator
\* splits between all characters.
split(t, sep) ==
  IF sep = <<>> THEN [k \in 1..Len(t) |-> <<t[k]>>] ELSE SplitFrom(t, sep, 1)

\* String.prototype.repeat for a one-character string
repeat(s, n) == [k \in 1..n |-> s[1]]

Max(a, b) == IF a >= b THEN a ELSE b

Digit(d) == <<"0", "1", "2", "3", "4", "5", "6", "7", "8", "9">>[d + 1]

RECURSIVE NatToString(_)
NatToString(n) ==
  IF n < 10 THEN <<Digit(n)>> ELSE NatToString(n \div 10) \o <<Digit(n % 10)>>

(***************************************************************************)
(* utils: figures, colours, levels, the registry of log types.             *)
(***************************************************************************)
ESC == "ESC"
NL == "\n"

Figure ==
  [TICK |-> <<"TICK">>, INFO |-> <<"INFO">>, CROSS |-> <<"CROSS">>,
   WARNING |-> <<"WARNING">>, ELLIPSIS |-> <<"ELLIPSIS">>,
   POINTER_SMALL |-> <<"POINTER">>]

Colour ==
  [RED |-> <<ESC, "[", "3", "1", "m">>,
   BOLD |-> <<ESC, "[", "1", "m">>,
   GREY |-> <<ESC, "[", "9", "0", "m">>,
   BLUE |-> <<ESC, "[", "3", "4", "m">>,
   CYAN |-> <<ESC, "[", "3", "6", "m">>,
   RESET |-> <<ESC, "[", "0", "m">>,
   GREEN |-> <<ESC, "[", "3", "2", "m">>,
   YELLOW |-> <<ESC, "[", "3", "3", "m">>,
   MAGENTA |-> <<ESC, "[", "3", "5", "m">>,
   UNDERLINE |-> <<ESC, "[", "4", "m">>]

Level == [TRACE |-> 0, DEBUG |-> 1, INFO |-> 2, WARN |-> 3, ERROR |-> 4, FATAL |-> 5]

Levels == {Level.TRACE, Level.DEBUG, Level.INFO, Level.WARN, Level.ERROR, Level.FATAL}

LogTypeName == {"success", "warn", "error", "fatal", "trace", "debug", "info"}

\* createLogType that drops its stream argument and keeps the default.
createLogTypeStdout(label, lvl, badge, col, stream) ==
  [label |-> label, level |-> lvl, badge |-> badge, colour |-> col, stream |-> "stdout"]

createLogType(label, lvl, badge, col, stream) ==
  [label |-> label, level |-> lvl, badge |-> badge, colour |-> col, stream |-> stream]

TYPES ==
  [success |-> createLogType(<<"s","u","c","c","e","s","s">>, Level.INFO, Figure.TICK, Colour.GREEN, "stdout"),
   warn |-> createLogType(<<"w","a","r","n">>, Level.WARN, Figure.WARNING, Colour.YELLOW, "stdout"),
   error |-> createLogType(<<"e","r","r","o","r">>, Level.ERROR, Figure.CROSS, Colour.RED, "stderr"),
   fatal |-> createLogType(<<"f","a","t","a","l">>, Level.FATAL, Figure.CROSS, Colour.RED, "stderr"),
   trace |-> createLogType(<<"t","r","a","c","e">>, Level.TRACE, Figure.ELLIPSIS, Colour.BLUE, "stdout"),
   debug |-> createLogType(<<"d","e","b","u","g">>, Level.DEBUG, Figure.INFO, Colour.CYAN, "stdout"),
   info |-> createLogType(<<"i","n","f","o">>, Level.INFO, Figure.INFO, Colour.BLUE, "stdout")]

\* colours.join("") + input + RESET
colour(input, colours) == Join(colours, <<>>) \o input \o Colour.RESET

shouldUseColors(e) ==
  IF e.NO_COLOR \/ e.NODE_DISABLE_COLORS THEN FALSE
  ELSE IF e.FORCE_COLOR THEN TRUE
  ELSE e.isTTY

(***************************************************************************)
(* Values of the host language that a call can pass.  Every value is a     *)
(* record with the tag t:                                                  *)
(*   string(s)  number(n)  boolean(b)  null  undefined  regexp(source)     *)
(*   error(message, stack)   where stack is a string value or undefined    *)
(*   object(entries)         entries: sequence of [key, value]             *)
(***************************************************************************)
Str(s) == [t |-> "string", s |-> s]
Num(n) == [t |-> "number", n |-> n]
Bool(b) == [t |-> "boolean", b |-> b]
Null == [t |-> "null"]
Undefined == [t |-> "undefined"]
RegExp(src) == [t |-> "regexp", source |-> src]
Err(message, stack) == [t |-> "error", message |-> message, stack |-> stack]
Obj(entries) == [t |-> "object", entries |-> entries]
Entry(k, v) == [key |-> k, value |-> v]

\* Object.create(null) with the given entries: an object that inherits
\* neither toString nor valueOf.
NullProto(entries) == [t |-> "object", entries |-> entries, proto |-> "null"]

\* String(value) throws a TypeError: the value is an object that cannot be
\* converted to a primitive.
StringThrows(v) == v.t = "object" /\ "proto" \in DOMAIN v

ObjectObject == <<"[","o","b","j","e","c","t"," ","O","b","j","e","c","t","]">>

\* String(value)
String(v) ==
  CASE v.t = "string" -> v.s
    [] v.t = "number" -> NatToString(v.n)
    [] v.t = "boolean" -> IF v.b THEN <<"t","r","u","e">> ELSE <<"f","a","l","s","e">>
    [] v.t = "null" -> <<"n","u","l","l">>
    [] v.t = "undefined" -> <<"u","n","d","e","f","i","n","e","d">>
    [] v.t = "regexp" -> <<"/">> \o v.source \o <<"/">>
    [] v.t = "error" ->
         IF v.message = <<>> THEN <<"E","r","r","o","r">>
         ELSE <<"E","r","r","o","r",":"," ">> \o v.message
    [] v.t = "object" -> ObjectObject

JSONEscapeChar(c) ==
  CASE c = "\"" -> <<"\\", "\"">>
    [] c = "\\" -> <<"\\", "\\">>
    [] c = NL -> <<"\\", "n">>
    [] c = ESC -> <<"\\", "u", "0", "0", "1", "b">>
    [] OTHER -> <<c>>

RECURSIVE JSONQuoteFrom(_, _)
JSONQuoteFrom(s, i) ==
  IF i > Len(s) THEN <<>> ELSE JSONEscapeChar(s[i]) \o JSONQuoteFrom(s, i + 1)

JSONQuote(s) == <<"\"">> \o JSONQuoteFrom(s, 1) \o <<"\"">>

\* JSON.stringify(value) yields no text for undefined.
JSONDefined(v) == v.t # "undefined"

RECURSIVE JSONstringify(_)
RECURSIVE JSONMembers(_, _)
JSONMembers(entries, i) ==
  IF i > Len(entries) THEN <<>>
  ELSE IF ~JSONDefined(entries[i].value) THEN JSONMembers(entries, i + 1)
  ELSE <<JSONQuote(entries[i].key) \o <<":">> \o JSONstringify(entries[i].value)>>
         \o JSONMembers(entries, i + 1)

\* JSON.stringify(value) placed in a template literal: undefined prints as
\* "undefined"; errors and regular expressions have no enumerable properties.
JSONstringify(v) ==
  CASE v.t = "string" -> JSONQuote(v.s)
    [] v.t = "number" -> NatToString(v.n)
    [] v.t = "boolean" -> String(v)
    [] v.t = "null" -> String(v)
    [] v.t = "undefined" -> String(v)
    [] v.t = "regexp" -> <<"{", "}">>
    [] v.t = "error" -> <<"{", "}">>
    [] v.t = "object" -> <<"{">> \o Join(JSONMembers(v.entries, 1), <<",">>) \o <<"}">>

(***************************************************************************)
(* class Pika.  A logger object is the record of its private fields.       *)
(* Options are records holding only the keys that are present; the value   *)
(* of a key is <<v>>, or <<>> for an explicit undefined.                    *)
(***************************************************************************)
OptionKeys == {"scope", "level", "secrets", "useColors"}

Has(o, k) == k \in DOMAIN o /\ o[k] # <<>>

\* { ...a, ...b }
Spread(a, b) ==
  [k \in (DOMAIN a) \cup (DOMAIN b) |-> IF k \in DOMAIN b THEN b[k] ELSE a[k]]

REDACTED == <<"[","R","E","D","A","C","T","E","D","]">>

ANONYMOUS == <<"a","n","o","n","y","m","o","u","s">>

RECURSIVE LastIndexOf(_, _, _)
LastIndexOf(s, c, i) ==
  IF i < 1 THEN 0 ELSE IF s[i] = c THEN i ELSE LastIndexOf(s, c, i - 1)

\* path.parse(p).name: the last path segment without its extension (a
\* leading dot does not start an extension).
ParseName(p) ==
  LET slash == LastIndexOf(p, "/", Len(p))
      base == SubSeq(p, slash + 1, Len(p))
      dot == LastIndexOf(base, ".", Len(base))
  IN  IF dot <= 1 THEN base ELSE SubSeq(base, 1, dot - 1)

FileScheme == <<"f","i","l","e",":","/","/">>

\* fileURLToPath for a file:// URL without host or escapes.
fileURLToPath(u) == SubSeq(u, Len(FileScheme) + 1, Len(u))

\* The outcome of capturing the call stack: e.stack.throws when the capture
\* throws, e.stack.defined when a stack exists, e.stack.frames the file name
\* of each frame (<<>> for a frame without file name).
RECURSIVE FindExternal(_, _, _)
FindExternal(frames, current, i) ==
  IF i > Len(frames) THEN 0
  ELSE IF frames[i] # current THEN i
  ELSE FindExternal(frames, current, i + 1)

getFilename(e) ==
  IF e.stack.throws THEN ANONYMOUS
  ELSE IF ~e.stack.defined \/ Len(e.stack.frames) = 0 THEN ANONYMOUS
  ELSE LET frames == e.stack.frames
           currentFile == frames[1]
           externalCaller == FindExternal(frames, currentFile, 2)
       IN  IF externalCaller = 0 THEN ANONYMOUS
           ELSE LET filePath == frames[externalCaller]
                IN  IF filePath = <<>> THEN ANONYMOUS
                    ELSE ParseName(IF StartsAt(filePath, FileScheme, 1)
                                   THEN fileURLToPath(filePath) ELSE filePath)

\* #getFilename throws: Error.prepareStackTrace cannot be assigned (Error is
\* frozen or the property is read-only; a module is strict code), so the
\* assignment in the try block throws, the catch block returns, and the
\* assignment in the finally block throws again, in place of the return.
getFilenameThrows(e) == "frozen" \in DOMAIN e.stack /\ e.stack.frozen

\* new Pika(options) throws.
PikaThrows(o, e) == ~Has(o, "scope") /\ getFilenameThrows(e)

RECURSIVE MaxLabel(_, _)
MaxLabel(names, acc) ==
  IF names = {} THEN acc
  ELSE LET n == CHOOSE x \in names : TRUE
           len == Len(TYPES[n].label)
       IN  MaxLabel(names \ {n}, IF len > 0 THEN Max(acc, len) ELSE acc)

getLongestLabel == MaxLabel(LogTypeName, 0)

\* new Pika(options) with TRACE as the level of a logger built without one.
PikaDefaultTrace(o, e) ==
  [scope |-> IF Has(o, "scope") THEN o.scope[1] ELSE getFilename(e),
   level |-> IF Has(o, "level") THEN o.level[1] ELSE Level.TRACE,
   longest |-> getLongestLabel,
   secrets |-> IF Has(o, "secrets") THEN o.secrets[1] ELSE <<>>,
   useColors |-> IF Has(o, "useColors") THEN o.useColors[1] ELSE shouldUseColors(e)]

\* new Pika(options)
Pika(o, e) ==
  [scope |-> IF Has(o, "scope") THEN o.scope[1] ELSE getFilename(e),
   level |-> IF Has(o, "level") THEN o.level[1] ELSE Level.INFO,
   longest |-> getLongestLabel,
   secrets |-> IF Has(o, "secrets") THEN o.secrets[1] ELSE <<>>,
   useColors |-> IF Has(o, "useColors") THEN o.useColors[1] ELSE shouldUseColors(e)]

\* get options()
options(this) ==
  [scope |-> <<this.scope>>, level |-> <<this.level>>,
   secrets |-> <<this.secrets>>, useColors |-> <<this.useColors>>]

(***************************************************************************)
(* Builder methods.  h is the heap of logger objects, i the receiver; the  *)
(* result is the heap after the call and the reference returned.           *)
(***************************************************************************)
New(h, o, e) == [heap |-> Append(h, Pika(o, e)), ret |-> Len(h) + 1]

\* scope as a setter: assigns the receiver's field and returns the receiver.
scopeMutating(h, i, s, e) == [heap |-> [h EXCEPT ![i].scope = s], ret |-> i]

scope(h, i, s, e) == New(h, Spread(options(h[i]), [scope |-> <<s>>]), e)

level(h, i, l, e) == New(h, Spread(options(h[i]), [level |-> <<l>>]), e)

\* secrets that replaces the list instead of appending to it.
secretsReplace(h, i, ss, e) == New(h, Spread(options(h[i]), [secrets |-> <<ss>>]), e)

secrets(h, i, ss, e) ==
  New(h, Spread(options(h[i]), [secrets |-> <<h[i].secrets \o ss>>]), e)

clone(h, i, overrides, e) == New(h, Spread(options(h[i]), overrides), e)

(***************************************************************************)
(* The formatting pipeline of one logger (this).                           *)
(***************************************************************************)
\* The reduce taken from the last secret to the first.
RECURSIVE filterFromLast(_, _, _)
filterFromLast(ss, k, sanitized) ==
  IF k > Len(ss) THEN sanitized
  ELSE filterFromLast(ss, k + 1, replaceAll(sanitized, ss[Len(ss) + 1 - k], REDACTED))

RECURSIVE filterFrom(_, _, _)
filterFrom(ss, k, sanitized) ==
  IF k > Len(ss) THEN sanitized
  ELSE filterFrom(ss, k + 1, replaceAll(sanitized, ss[k], REDACTED))

\* The redaction of the first version of the logger: split and join with the
\* placeholder "[secure]".
RECURSIVE filterSecureFrom(_, _, _)
filterSecureFrom(ss, k, safe) ==
  IF k > Len(ss) THEN safe
  ELSE filterSecureFrom(ss, k + 1,
         Join(split(safe, ss[k]), <<"[","s","e","c","u","r","e","]">>))

filterSecretsSecure(this, input) ==
  IF Len(this.secrets) = 0 THEN input ELSE filterSecureFrom(this.secrets, 1, input)

filterSecrets(this, input) ==
  IF Len(this.secrets) = 0 THEN input ELSE filterFrom(this.secrets, 1, input)

formatScope(this) == <<"[">> \o this.scope \o <<"]">>

getMeta(this) ==
  <<colour(formatScope(this), <<Colour.GREY>>),
    colour(Figure.POINTER_SMALL, <<Colour.GREY>>)>>

applyColor(this, text, colors) ==
  IF this.useColors THEN colour(text, colors) ELSE text

\* formatError without the fallback to the message.
formatErrorStackOnly(this, error) ==
  IF error.stack.t = "undefined" \/ error.stack.s = <<>> THEN <<>>
  ELSE LET lines == split(error.stack.s, <<NL>>)
       IN  applyColor(this, lines[1], <<Colour.UNDERLINE>>) \o <<NL>>
             \o applyColor(this, Join(Tail(lines), <<NL>>), <<Colour.GREY>>)

\* !error.stack: the stack is undefined or the empty string
formatError(this, error) ==
  IF error.stack.t = "undefined" \/ error.stack.s = <<>> THEN error.message
  ELSE LET lines == split(error.stack.s, <<NL>>)
           name == lines[1]
           stackLines == Tail(lines)
           coloredName == applyColor(this, name, <<Colour.UNDERLINE>>)
           coloredStack == applyColor(this, Join(stackLines, <<NL>>), <<Colour.GREY>>)
       IN  coloredName \o <<NL>> \o coloredStack

RECURSIVE formatEntries(_, _)
formatEntries(entries, i) ==
  IF i > Len(entries) THEN <<>>
  ELSE <<entries[i].key \o <<" ", "=", " ">> \o JSONstringify(entries[i].value)>>
         \o formatEntries(entries, i + 1)

\* formatObject with String(value) between quotes in place of JSON.
RECURSIVE formatEntriesString(_, _)
formatEntriesString(entries, i) ==
  IF i > Len(entries) THEN <<>>
  ELSE <<entries[i].key \o <<" ", "=", " ", "\"">> \o String(entries[i].value) \o <<"\"">>>>
         \o formatEntriesString(entries, i + 1)

formatObjectString(obj) == Join(formatEntriesString(obj.entries, 1), <<",", " ">>)

formatObject(obj) == Join(formatEntries(obj.entries, 1), <<",", " ">>)

RECURSIVE mapString(_, _)
mapString(args, i) ==
  IF i > Len(args) THEN <<>> ELSE <<String(args[i])>> \o mapString(args, i + 1)

\* typeof first === "object" && first !== null && not Date && not RegExp
isPlainObject(first) == first.t = "object"

\* buildMessage that pads the label after colouring it, by the length of
\* the coloured text.
buildMessagePadColoured(this, type, args) ==
  LET label == applyColor(this, type.label, <<type.colour, Colour.UNDERLINE>>)
      parts ==
        getMeta(this)
          \o <<applyColor(this, type.badge \o <<" ">>, <<type.colour>>)>>
          \o <<label \o repeat(<<" ">>, Max(0, this.longest - Len(label)))>>
  IN  IF Len(args) = 0 THEN Join(parts, <<" ">>)
      ELSE LET first == args[1]
               payload ==
                 IF first.t = "error" THEN formatError(this, first)
                 ELSE IF isPlainObject(first) THEN formatObject(first)
                 ELSE applyColor(this, Join(mapString(args, 1), <<" ">>), <<Colour.GREY>>)
           IN  Join(parts \o <<payload>>, <<" ">>)

buildMessage(this, type, args) ==
  LET parts ==
        getMeta(this)
          \o <<applyColor(this, type.badge \o <<" ">>, <<type.colour>>)>>
          \o <<applyColor(this, type.label, <<type.colour, Colour.UNDERLINE>>)
                 \o repeat(<<" ">>, Max(0, this.longest - Len(type.label)))>>
  IN  IF Len(args) = 0 THEN Join(parts, <<" ">>)
      ELSE LET first == args[1]
               payload ==
                 IF first.t = "error" THEN formatError(this, first)
                 ELSE IF isPlainObject(first) THEN formatObject(first)
                 ELSE applyColor(this, Join(mapString(args, 1), <<" ">>), <<Colour.GREY>>)
           IN  Join(parts \o <<payload>>, <<" ">>)

\* #buildMessage throws: the call takes the branch that maps String over
\* the arguments, and String throws for one of them.
buildMessageThrows(this, type, args) ==
  /\ Len(args) > 0
  /\ args[1].t # "error"
  /\ ~isPlainObject(args[1])
  /\ \E k \in DOMAIN args : StringThrows(args[k])

\* #log throws: the type passes the gate and #buildMessage throws, before
\* anything is written.
logThrows(this, type, args) ==
  /\ type.level >= this.level
  /\ buildMessageThrows(this, type, args)

\* log with the gate off by one: a type at the logger's level is suppressed.
logOffByOne(this, type, args) ==
  IF type.level <= this.level THEN <<>>
  ELSE <<[stream |-> type.stream,
          chunk |-> filterSecrets(this, buildMessage(this, type, args)) \o <<NL>>]>>

\* log that writes the line and the newline separately.
logTwoWrites(this, type, args) ==
  IF type.level < this.level THEN <<>>
  ELSE <<[stream |-> type.stream,
          chunk |-> filterSecrets(this, buildMessage(this, type, args))],
         [stream |-> type.stream, chunk |-> <<NL>>]>>

\* The writes a call performs: none when the type is below the logger's
\* level, else one write of the redacted line and a newline on type.stream.
log(this, type, args) ==
  IF type.level < this.level THEN <<>>
  ELSE <<[stream |-> type.stream,
          chunk |-> filterSecrets(this, buildMessage(this, type, args)) \o <<NL>>]>>

(***************************************************************************)
(* The inputs the operations are called with.                              *)
(***************************************************************************)
IndexFile == <<"/","p","/","i","n","d","e","x",".","j","s">>
CallerFile == <<"/","a","/","m","a","i","n",".","t","s">>

Stack(throws, defined, frames) == [throws |-> throws, defined |-> defined, frames |-> frames]

Env(noColor, nodeDisable, force, tty, stack) ==
  [NO_COLOR |-> noColor, NODE_DISABLE_COLORS |-> nodeDisable,
   FORCE_COLOR |-> force, isTTY |-> tty, stack |-> stack]

EnvTerminal ==
  Env(FALSE, FALSE, FALSE, TRUE, Stack(FALSE, TRUE, <<IndexFile, IndexFile, CallerFile>>))

EnvNoColor == Env(TRUE, FALSE, FALSE, TRUE, Stack(FALSE, FALSE, <<>>))

Envs == {EnvTerminal, EnvNoColor}

SecretPw == <<"p", "w">>
SecretW == <<"w">>
SecretE == <<"E">>
SecretEmpty == <<>>

App == <<"a", "p", "p">>

Boom == <<"b","o","o","m">>
BoomStack ==
  <<"E","r","r","o","r",":"," ","b","o","o","m",NL," ","a","t"," ","p","w",NL," ","a","t"," ","g">>

\* Inputs of Spec.
Scopes == {App}
BuilderLevels == {Level.TRACE, Level.ERROR}
SecretArgs == {<<SecretPw>>, <<SecretW, SecretPw>>}
Overrides == {[useColors |-> <<FALSE>>], [level |-> <<>>, secrets |-> <<<<SecretW>>>>]}
Payloads == {<<Str(<<"p", "w", NL, "k">>)>>}

\* Inputs of SpecFormat.
SecretLists ==
  {<<>>, <<SecretPw>>, <<SecretW, SecretPw>>, <<SecretPw, SecretW>>,
   <<SecretE>>, <<SecretEmpty>>}

FormatOptions ==
  {[scope |-> <<App>>, level |-> <<l>>, secrets |-> <<ss>>, useColors |-> <<c>>] :
     l \in Levels, ss \in SecretLists, c \in BOOLEAN}

Endpoint == <<"e","n","d","p","o","i","n","t">>
UsersProfile == <<"/","u","s","e","r","s","/","p","r","o","f","i","l","e">>
ResponseTime == <<"r","e","s","p","o","n","s","e","T","i","m","e">>
Ms700 == <<"7","0","0","m","s">>

RichPayloads ==
  {<<>>,
   <<Str(<<"a", " ", "p", "w", " ", "E", "w">>)>>,
   <<Str(<<"x">>), Num(42), Null, Obj(<<>>)>>,
   <<Obj(<<Entry(Endpoint, Str(UsersProfile)), Entry(ResponseTime, Str(Ms700))>>)>>,
   <<Obj(<<Entry(<<"k">>, Str(<<"p", "\"", "w">>)),
           Entry(<<"n">>, Obj(<<Entry(<<"a">>, Num(1)), Entry(<<"u">>, Undefined)>>)),
           Entry(<<"u">>, Undefined)>>),
     Str(<<"x">>)>>,
   <<Err(Boom, Str(BoomStack))>>,
   <<Err(Boom, Undefined)>>,
   <<Err(<<>>, Str(<<>>))>>}

\* Inputs of SpecScope: the outcomes of capturing the call stack.
CallerUrl ==
  FileScheme \o <<"/","a","/","j","o","b",".","m","j","s">>

Frozen == [throws |-> TRUE, defined |-> FALSE, frames |-> <<>>, frozen |-> TRUE]

Stacks ==
  {Stack(FALSE, TRUE, <<IndexFile, IndexFile, CallerFile>>),
   Stack(FALSE, TRUE, <<IndexFile, CallerUrl>>),
   Stack(FALSE, FALSE, <<>>),
   Stack(FALSE, TRUE, <<>>),
   Stack(FALSE, TRUE, <<IndexFile, IndexFile>>),
   Stack(FALSE, TRUE, <<IndexFile, <<>>, CallerFile>>),
   Stack(TRUE, TRUE, <<IndexFile, CallerFile>>),
   Frozen}

ScopeEnvs == {Env(FALSE, FALSE, FALSE, tty, st) : tty \in BOOLEAN, st \in Stacks}

ScopeOptions ==
  {<<>>, [level |-> <<Level.TRACE>>], [scope |-> <<>>, secrets |-> <<<<SecretPw>>>>],
   [scope |-> <<App>>]}

\* Inputs of SpecCoerce.
CoerceOptions ==
  {[scope |-> <<App>>, level |-> <<l>>, secrets |-> <<ss>>, useColors |-> <<c>>] :
     l \in Levels, ss \in {<<>>, <<SecretPw>>}, c \in BOOLEAN}

CoercePayloads ==
  {<<Str(<<"h", "i">>)>>,
   <<Str(<<"x">>), Num(42), Bool(TRUE), Null, Undefined>>,
   <<Num(7)>>,
   <<Bool(FALSE), Str(<<"x">>)>>,
   <<Null>>,
   <<Undefined>>,
   <<Str(<<>>)>>,
   <<RegExp(<<"a", "+">>), Obj(<<>>)>>,
   <<Str(<<"x">>), Err(Boom, Undefined)>>,
   <<Str(<<"x">>), NullProto(<<>>)>>}

BuilderOps == {"scope", "level", "secrets", "clone"}

(***************************************************************************)
(* The state machine.                                                      *)
(***************************************************************************)
NoOp == [op |-> "none", recv |-> 0, ret |-> 0, args |-> <<>>, raised |-> FALSE]

Fresh ==
  /\ stdout = <<>>
  /\ stderr = <<>>
  /\ last = NoOp
  /\ pre = <<>>
  /\ calls = [made |-> 0, passed |-> 0]

\* pika()
Init ==
  /\ env \in Envs
  /\ loggers = New(<<>>, <<>>, env).heap
  /\ Fresh

Steps == (Len(loggers) - 1) + calls.made

\* A builder call on logger i with the input args that returned r.
Built(name, i, args, r) ==
  /\ Steps < MaxSteps
  /\ loggers' = r.heap
  /\ last' = [op |-> name, recv |-> i, ret |-> r.ret, args |-> args, raised |-> FALSE]
  /\ pre' = IF i \in DOMAIN pre THEN pre ELSE (i :> loggers[i]) @@ pre
  /\ UNCHANGED <<stdout, stderr, env, calls>>

CallScope ==
  \E i \in DOMAIN loggers, s \in Scopes : Built("scope", i, <<s>>, scope(loggers, i, s, env))

CallLevel ==
  \E i \in DOMAIN loggers, l \in BuilderLevels : Built("level", i, <<l>>, level(loggers, i, l, env))

CallSecrets ==
  \E i \in DOMAIN loggers, ss \in SecretArgs :
    Built("secrets", i, ss, secrets(loggers, i, ss, env))

CallClone ==
  \E i \in DOMAIN loggers, o \in Overrides : Built("clone", i, <<o>>, clone(loggers, i, o, env))

RECURSIVE Written(_, _)
Written(writes, stream) ==
  IF writes = <<>> THEN <<>>
  ELSE (IF writes[1].stream = stream THEN <<writes[1].chunk>> ELSE <<>>)
         \o Written(Tail(writes), stream)

\* A call of the logging method name on logger i with the arguments args:
\* it returns after the writes of #log, or raises what #log throws.
LogCall(name, i, args) ==
  /\ LET raised == logThrows(loggers[i], TYPES[name], args)
         writes == IF raised THEN <<>> ELSE log(loggers[i], TYPES[name], args)
     IN  /\ stdout' = stdout \o Written(writes, "stdout")
         /\ stderr' = stderr \o Written(writes, "stderr")
         /\ last' = [op |-> name, recv |-> i, ret |-> 0, args |-> args, raised |-> raised]
  /\ calls' = [made |-> calls.made + 1,
               passed |-> calls.passed
                            + (IF TYPES[name].level >= loggers[i].level THEN 1 ELSE 0)]
  /\ UNCHANGED <<loggers, env, pre>>

Call(name) ==
  \E i \in DOMAIN loggers, args \in Payloads : Steps < MaxSteps /\ LogCall(name, i, args)

Success == Call("success")
Warn == Call("warn")
Error == Call("error")
Fatal == Call("fatal")
Trace == Call("trace")
Debug == Call("debug")
Info == Call("info")

Next ==
  \/ CallScope
  \/ CallLevel
  \/ CallSecrets
  \/ CallClone
  \/ Success
  \/ Warn
  \/ Error
  \/ Fatal
  \/ Trace
  \/ Debug
  \/ Info

Spec == Init /\ [][Next]_vars

(***************************************************************************)
(* SpecFormat: one logger constructed with explicit options, and logging   *)
(* calls with every shape of payload.                                      *)
(***************************************************************************)
\* pika(options)
InitFormat ==
  /\ env = EnvTerminal
  /\ \E o \in FormatOptions : loggers = New(<<>>, o, env).heap
  /\ Fresh

CallFormat(name) ==
  \E i \in DOMAIN loggers, args \in RichPayloads :
    calls.made < MaxCalls /\ LogCall(name, i, args)

FormatSuccess == CallFormat("success")
FormatWarn == CallFormat("warn")
FormatError == CallFormat("error")
FormatFatal == CallFormat("fatal")
FormatTrace == CallFormat("trace")
FormatDebug == CallFormat("debug")
FormatInfo == CallFormat("info")

NextFormat ==
  \/ FormatSuccess
  \/ FormatWarn
  \/ FormatError
  \/ FormatFatal
  \/ FormatTrace
  \/ FormatDebug
  \/ FormatInfo

SpecFormat == InitFormat /\ [][NextFormat]_vars

(***************************************************************************)
(* SpecScope: loggers constructed with and without a scope, in every       *)
(* outcome of capturing the call stack, and logging calls on them.         *)
(***************************************************************************)
InitScope ==
  /\ env \in ScopeEnvs
  /\ loggers = <<>>
  /\ Fresh

\* pika(o): returns a new logger, or raises what the constructor throws.
Construct ==
  \E o \in ScopeOptions :
    /\ Len(loggers) + calls.made < MaxSteps
    /\ IF PikaThrows(o, env)
       THEN /\ last' = [op |-> "pika", recv |-> 0, ret |-> 0, args |-> <<o>>, raised |-> TRUE]
            /\ UNCHANGED loggers
       ELSE /\ last' = [op |-> "pika", recv |-> 0, ret |-> Len(loggers) + 1,
                        args |-> <<o>>, raised |-> FALSE]
            /\ loggers' = New(loggers, o, env).heap
    /\ UNCHANGED <<stdout, stderr, env, pre, calls>>

CallScoped(name) ==
  \E i \in DOMAIN loggers, args \in Payloads :
    Len(loggers) + calls.made < MaxSteps /\ LogCall(name, i, args)

ScopeInfo == CallScoped("info")
ScopeError == CallScoped("error")

NextScope ==
  \/ Construct
  \/ ScopeInfo
  \/ ScopeError

SpecScope == InitScope /\ [][NextScope]_vars

(***************************************************************************)
(* SpecCoerce: one logger constructed with explicit options, and logging   *)
(* calls whose first argument is neither an error nor a record.            *)
(***************************************************************************)
InitCoerce ==
  /\ env = EnvTerminal
  /\ \E o \in CoerceOptions : loggers = New(<<>>, o, env).heap
  /\ Fresh

CallCoerce(name) ==
  \E i \in DOMAIN loggers, args \in CoercePayloads :
    calls.made < MaxCalls /\ LogCall(name, i, args)

CoerceSuccess == CallCoerce("success")
CoerceWarn == CallCoerce("warn")
CoerceError == CallCoerce("error")
CoerceFatal == CallCoerce("fatal")
CoerceTrace == CallCoerce("trace")
CoerceDebug == CallCoerce("debug")
CoerceInfo == CallCoerce("info")

NextCoerce ==
  \/ CoerceSuccess
  \/ CoerceWarn
  \/ CoerceError
  \/ CoerceFatal
  \/ CoerceTrace
  \/ CoerceDebug
  \/ CoerceInfo

SpecCoerce == InitCoerce /\ [][NextCoerce]_vars

(***************************************************************************)
(* Properties.                                                             *)
(***************************************************************************)
IsLog(op) == op \in LogTypeName

\* The step is a logging call.
LogStep == calls'.made # calls.made

\* The number of writes made so far on both streams.
Writes == Len(stdout) + Len(stderr)

\* The last logging call was not suppressed, and c is what it wrote last on
\* the stream of its type.
LastWrote ==
  /\ IsLog(last.op)
  /\ TYPES[last.op].level >= loggers[last.recv].level

LastStream == IF TYPES[last.op].stream = "stdout" THEN stdout ELSE stderr

LastChunk == LastStream[Len(LastStream)]

\* C1: a call of a logging method whose type has level D on a logger of
\* minimum level L performs a write iff D >= L, and a suppressed call leaves
\* both streams as they were.
C1_Gate ==
  [][LogStep =>
       LET D == TYPES[last'.op].level
           L == loggers[last'.recv].level
       IN  /\ (D >= L) <=> (Len(stdout') + Len(stderr') > Writes)
           /\ (D < L) => (stdout' = stdout /\ stderr' = stderr)]_vars

\* A call whose type is exactly at the logger's level has written.
C1_Witness ==
  /\ IsLog(last.op)
  /\ TYPES[last.op].level = loggers[last.recv].level
  /\ Writes = 1

\* C2: a logger that received builder calls keeps the fields it had at the
\* first of them; every builder call returns a new object; and a later
\* logging call on the receiver writes what its fields at that time give.
C2_ReceiverUnchanged ==
  /\ \A i \in DOMAIN pre : loggers[i] = pre[i]
  /\ last.op \in BuilderOps => (last.ret # last.recv /\ last.ret = Len(loggers))
  /\ (LastWrote /\ last.recv \in DOMAIN pre) =>
       LET w == log(pre[last.recv], TYPES[last.op], last.args)
       IN  Len(w) = 1 /\ Len(LastStream) > 0 /\ LastChunk = w[1].chunk

\* A logger that received two builder calls, whose results differ from it,
\* has then logged.
C2_Witness ==
  /\ LastWrote
  /\ last.recv \in DOMAIN pre
  /\ Len(loggers) >= 3
  /\ \A j \in DOMAIN loggers : j # last.recv => loggers[j] # loggers[last.recv]

\* C3: secrets(s1, ..., sn) on a logger whose list is X returns a logger
\* whose list is X followed by s1, ..., sn; every secret of a logger, added
\* by an earlier or a later call, is absent from what the logger writes.
C3_SecretsAppend ==
  /\ last.op = "secrets" =>
       loggers[last.ret].secrets = loggers[last.recv].secrets \o last.args
  /\ LastWrote =>
       \A k \in DOMAIN loggers[last.recv].secrets :
         ~Contains(LastChunk, loggers[last.recv].secrets[k])

\* secrets was called with a secret on a logger that already had that one.
C3_Witness ==
  /\ last.op = "secrets"
  /\ Len(last.args) > 0
  /\ \E k \in DOMAIN loggers[last.recv].secrets :
       loggers[last.recv].secrets[k] = last.args[1]
  /\ Len(loggers[last.ret].secrets) = Len(loggers[last.recv].secrets) + Len(last.args)

\* The logger, the type and the composed line of the last logging call.
This == loggers[last.recv]

Type == TYPES[last.op]

Composed == buildMessage(This, Type, last.args)

\* What was written last, without its final character.
Line == SubSeq(LastChunk, 1, Len(LastChunk) - 1)

EndsWith(t, s) == Len(s) <= Len(t) /\ SubSeq(t, Len(t) - Len(s) + 1, Len(t)) = s

\* The number of occurrences of s in t, taken left to right without overlap.
Count(t, s) == Len(split(t, s)) - 1

Chars(s) == {s[k] : k \in DOMAIN s}

\* A secret that is not empty and has no character of the placeholder.
Plain(s) == s # <<>> /\ Chars(s) \cap Chars(REDACTED) = {}

PlainSecrets(this) == \A k \in DOMAIN this.secrets : Plain(this.secrets[k])

C6_NoEscape == (LastWrote /\ ~This.useColors) => ~Contains(LastChunk, <<ESC>>)

\* C7: a call of success, warn, trace, debug or info leaves stderr as it was
\* and, when not suppressed, adds one write to stdout; a call of error or
\* fatal leaves stdout as it was and, when not suppressed, adds one write to
\* stderr.
C7_Routing ==
  [][LogStep =>
       LET op == last'.op
           passes == TYPES[op].level >= loggers[last'.recv].level
       IN  /\ op \in {"success", "warn", "trace", "debug", "info"} =>
                /\ stderr' = stderr
                /\ passes => Len(stdout') = Len(stdout) + 1
           /\ op \in {"error", "fatal"} =>
                /\ stdout' = stdout
                /\ passes => Len(stderr') = Len(stderr) + 1]_vars

\* A call of fatal has written to stderr and nothing is on stdout.
C7_Witness == last.op = "fatal" /\ Len(stderr) = 1 /\ stdout = <<>>

FullLine(c) == Len(c) >= 1 /\ c[Len(c)] = NL

\* C8: the writes are as many as the calls that were not suppressed; every
\* write ends with a newline; the last write is the redacted composed line
\* followed by one newline.
C8_OneWrite ==
  /\ Writes = calls.passed
  /\ \A k \in DOMAIN stdout : FullLine(stdout[k])
  /\ \A k \in DOMAIN stderr : FullLine(stderr[k])
  /\ LastWrote => LastChunk = filterSecrets(This, Composed) \o <<NL>>

\* Three calls were made, one was suppressed, the last one wrote.
C8_Witness ==
  /\ calls.made = 3
  /\ calls.passed = 2
  /\ LastWrote
  /\ Len(stdout) = 1
  /\ Len(stderr) = 1

RecordCall ==
  /\ LastWrote
  /\ Len(last.args) > 0
  /\ last.args[1].t = "object"
  /\ This.secrets = <<>>

EndpointText ==
  Endpoint \o <<" ", "=", " ", "\"">> \o UsersProfile \o <<"\"">>

ResponseTimeText ==
  ResponseTime \o <<" ", "=", " ", "\"">> \o Ms700 \o <<"\"">>

\* C9: when the first argument is a plain record (and the logger has no
\* secrets), the line written ends with the entries as key = JSON(value),
\* joined by ", "; it never holds [object Object]; the record of the example
\* gives endpoint = "/users/profile", responseTime = "700ms".
C9_Record ==
  RecordCall =>
    LET entries == last.args[1].entries
        kv == [k \in DOMAIN entries |->
                 entries[k].key \o <<" ", "=", " ">> \o JSONstringify(entries[k].value)]
    IN  /\ EndsWith(LastChunk, <<" ">> \o Join(kv, <<",", " ">>) \o <<NL>>)
        /\ ~Contains(LastChunk, ObjectObject)
        /\ (Len(entries) = 2 /\ entries[1].key = Endpoint) =>
             EndsWith(LastChunk, <<" ">> \o EndpointText \o <<",", " ">> \o ResponseTimeText \o <<NL>>)

\* A record with a nested record and a string holding a quote was written.
C9_Witness ==
  /\ RecordCall
  /\ Len(last.args[1].entries) = 3
  /\ last.args[1].entries[2].value.t = "object"
  /\ Contains(LastChunk, <<"\\", "\"">>)

ErrorCall ==
  /\ LastWrote
  /\ Len(last.args) > 0
  /\ last.args[1].t = "error"
  /\ This.secrets = <<>>

\* The line written after the scope, pointer, badge, padded label and the
\* space that separates them from the payload.
Payload == SubSeq(Line, Len(buildMessage(This, Type, <<>>)) + 2, Len(Line))

HasStack(error) == error.stack.t = "string" /\ error.stack.s # <<>>

Styled(text, code) == IF This.useColors THEN code \o text \o Colour.RESET ELSE text

\* The payload of an error with a stack: its first line underlined, a
\* newline, the rest of the stack muted.
StackPayload(stack) ==
  LET nl == IndexOf(stack, <<NL>>, 1)
      first == IF nl = 0 THEN stack ELSE SubSeq(stack, 1, nl - 1)
      rest == IF nl = 0 THEN <<>> ELSE SubSeq(stack, nl + 1, Len(stack))
  IN  Styled(first, Colour.UNDERLINE) \o <<NL>> \o Styled(rest, Colour.GREY)

ErrorPayload ==
  LET error == last.args[1]
  IN  /\ HasStack(error) => Payload = StackPayload(error.stack.s)
      /\ ~HasStack(error) => Payload = error.message

\* C10 as stated: the payload of an error is never empty; it is the styled
\* stack, or the message when there is no stack.
C10_Original == ErrorCall => (Payload # <<>> /\ ErrorPayload)

\* C10 amended: the payload of an error is the styled stack, or the message
\* when there is no stack; it is empty only when the error has no stack and
\* an empty message.
C10_ErrorPayload ==
  ErrorCall =>
    /\ ErrorPayload
    /\ Payload = <<>> <=> (~HasStack(last.args[1]) /\ last.args[1].message = <<>>)

\* An error without stack was written as its message.
C10_Witness ==
  /\ ErrorCall
  /\ ~HasStack(last.args[1])
  /\ last.args[1].message = Boom
  /\ Payload = Boom

\* The last call passed the gate with a first argument that is neither an
\* error nor an object.
CoerceCall ==
  /\ LastWrote
  /\ Len(last.args) > 0
  /\ last.args[1].t \notin {"error", "object"}

\* C11: a call whose first argument is neither an error nor a record does
\* not raise, and (on a logger without secrets) the payload it writes is
\* the string representations of all its arguments joined by single
\* spaces, in the muted colour.
C11_Coerced ==
  CoerceCall =>
    /\ ~last.raised
    /\ Len(LastStream) = 1
    /\ This.secrets = <<>> =>
         Payload = Styled(Join([k \in DOMAIN last.args |-> String(last.args[k])], <<" ">>),
                          Colour.GREY)

\* The step is a builder call.
BuilderStep == last'.op \in BuilderOps /\ last' # last

\* The builder call passes a level to the constructor.
SetsLevel(op, args) == op = "level" \/ (op = "clone" /\ Has(args[1], "level"))

\* C12: the logger made by pika() without options has level INFO; on a
\* logger of that level, trace and debug write nothing and info, success,
\* warn, error and fatal each perform one write; scope, secrets and a clone
\* that passes no level, called on a logger of that level, return a logger
\* of that level.
C12_DefaultLevel ==
  /\ [](loggers[1].level = Level.INFO)
  /\ [][/\ (LogStep /\ loggers[last'.recv].level = loggers[1].level) =>
            /\ last'.op \in {"trace", "debug"} =>
                 (stdout' = stdout /\ stderr' = stderr)
            /\ last'.op \in {"info", "success", "warn", "error", "fatal"} =>
                 Len(stdout') + Len(stderr') = Writes + 1
        /\ (BuilderStep /\ ~SetsLevel(last'.op, last'.args)
              /\ loggers[last'.recv].level = loggers[1].level) =>
            loggers'[last'.ret].level = Level.INFO]_vars

\* pika().secrets(...) has made a logger on which a call of debug wrote
\* nothing and a call of info wrote.
C12_Witness ==
  /\ last.op = "info"
  /\ last.recv = 2
  /\ loggers[2].level = Level.INFO
  /\ loggers[2].secrets # <<>>
  /\ calls.made = 2
  /\ Writes = 1

\* A piece of text that followed an escape character, without the rest of
\* the escape sequence (up to its "m").
AfterEscape(piece) ==
  LET m == IndexOf(piece, <<"m">>, 1)
  IN  IF m = 0 THEN <<>> ELSE SubSeq(piece, m + 1, Len(piece))

\* s without its escape sequences: what a terminal shows.
Visible(s) ==
  LET pieces == split(s, <<ESC>>)
  IN  Join([k \in DOMAIN pieces |->
              IF k = 1 THEN pieces[k] ELSE AfterEscape(pieces[k])], <<>>)

maxLabelWidth == Len(TYPES.success.label)

\* The number of pad spaces of a label.
Pad(label) == maxLabelWidth - Len(label)

\* What a line shows up to its payload: the scope tag, the pointer, the
\* badge and its space, the label and its pad, each separated by one space.
Shown(this, type) ==
  <<"[">> \o this.scope \o <<"]", " ">> \o Figure.POINTER_SMALL \o <<" ">>
    \o type.badge \o <<" ", " ">>
    \o type.label \o [k \in 1..Pad(type.label) |-> " "]

\* The column at which every payload of a logger starts.
PayloadColumn(this) == Len(this.scope) + maxLabelWidth + 10

\* C13: maxLabelWidth is 7, the length of the longest label; every label is
\* followed by maxLabelWidth - Len(label) >= 0 pad spaces (3 for a label of
\* length 4, none for "success"); a line without payload shows nothing
\* after the pad, and a line with a payload shows one space after the pad
\* and the payload from the same column for every method (loggers without
\* secrets, so that redaction leaves the label as it is).
C13_LabelPadding ==
  /\ maxLabelWidth = 7
  /\ getLongestLabel = maxLabelWidth
  /\ \A n \in LogTypeName :
       /\ Len(TYPES[n].label) <= maxLabelWidth
       /\ Pad(TYPES[n].label) >= 0
       /\ Len(TYPES[n].label) = 4 => Pad(TYPES[n].label) = 3
  /\ (LastWrote /\ This.secrets = <<>>) =>
       LET shown == Visible(Line)
           head == Shown(This, Type)
           rest == SubSeq(shown, Len(head) + 1, Len(shown))
       IN  /\ Len(shown) >= Len(head)
           /\ SubSeq(shown, 1, Len(head)) = head
           /\ Len(head) = PayloadColumn(This) - 2
           /\ Len(last.args) = 0 => rest = <<>>
           /\ Len(last.args) > 0 => (Len(rest) >= 1 /\ rest[1] = " ")
           /\ (Len(last.args) > 0 /\ last.args[1].t = "string") =>
                rest = <<" ">> \o Join([k \in DOMAIN last.args |-> String(last.args[k])], <<" ">>)

\* Coloured lines with a payload were written by warn (pad 3) and, in
\* another behaviour, by success (pad 0).
C13_Witness ==
  /\ LastWrote
  /\ This.secrets = <<>>
  /\ This.useColors
  /\ last.op = "warn"
  /\ Len(last.args) > 0
  /\ last.args[1].t = "string"
  /\ Visible(Line)[PayloadColumn(This)] = last.args[1].s[1]
  /\ Visible(Line)[PayloadColumn(This) - 1] = " "
  /\ Visible(Line)[PayloadColumn(This) - 5] = "n"

\* t with every occurrence of s, taken left to right without overlap,
\* replaced by the placeholder; the empty string occurs before every
\* character and at the end.
Redact(t, s) ==
  IF s # <<>> THEN Join(split(t, s), REDACTED)
  ELSE IF t = <<>> THEN REDACTED
  ELSE REDACTED \o Join([k \in DOMAIN t |-> <<t[k]>>], REDACTED) \o REDACTED

\* t after the first n secrets of ss, one after another.
RECURSIVE Sequential(_, _, _)
Sequential(ss, n, t) ==
  IF n = 0 THEN t ELSE Redact(Sequential(ss, n - 1, t), ss[n])

\* Secret i is stored before secret j, is shorter and is part of it.
Shadows(ss, i, j) ==
  /\ i < j
  /\ ss[i] # <<>>
  /\ Len(ss[i]) < Len(ss[j])
  /\ Contains(ss[j], ss[i])

Swapped(ss, i, j) == [ss EXCEPT ![i] = ss[j], ![j] = ss[i]]

\* C14: the line written is the composed line after the secrets, in the
\* order stored, each replacing every occurrence in the result of the one
\* before; an empty list gives the composed line; a secret that a shorter
\* one stored before it is part of finds no occurrence when its turn comes
\* (secrets without characters of the placeholder), and where it occurred
\* in the composed line the outcome is not that of the longer one first.
C14_InOrder ==
  LastWrote =>
    LET ss == This.secrets
    IN  /\ Line = Sequential(ss, Len(ss), Composed)
        /\ ss = <<>> => Line = Composed
        /\ \A i, j \in DOMAIN ss :
             (Shadows(ss, i, j) /\ PlainSecrets(This)) =>
               /\ ~Contains(Sequential(ss, j - 1, Composed), ss[j])
               /\ Contains(Composed, ss[j]) =>
                    Line # Sequential(Swapped(ss, i, j), Len(ss), Composed)

\* A line holding "pw" was written by a logger that stores "w" before
\* "pw": the "p" is left before the placeholder.
C14_Witness ==
  /\ LastWrote
  /\ This.secrets = <<SecretW, SecretPw>>
  /\ Contains(Composed, SecretPw)
  /\ Contains(Line, <<"p">> \o REDACTED)
  /\ ~Contains(Line, SecretW)

\* The capture of the call stack is unavailable, empty, without a frame
\* outside the logger's own file, or throws.
NoCaller(e) ==
  \/ getFilenameThrows(e)
  \/ e.stack.throws
  \/ ~e.stack.defined
  \/ e.stack.frames = <<>>
  \/ \A k \in DOMAIN e.stack.frames : e.stack.frames[k] = e.stack.frames[1]

\* The last operation constructed a logger from options without a scope.
Unscoped == last.op = "pika" /\ ~Has(last.args[1], "scope")

\* C15: the construction of a logger without a scope does not raise, and
\* the scope of the logger is "anonymous" whenever the capture of the call
\* stack is unavailable, empty, without an outside frame, or throws.
C15_Anonymous ==
  Unscoped =>
    /\ ~last.raised
    /\ last.ret = Len(loggers)
    /\ NoCaller(env) => loggers[last.ret].scope = ANONYMOUS

\* The fields of logger n, other than those named in changed, are those of
\* logger r.
SameExcept(n, r, changed) == \A k \in OptionKeys \ changed : n[k] = r[k]

\* C16: the logger returned by scope(x) has scope x, by level(l) level l,
\* and each has the receiver's other fields; secrets(...) returns a logger
\* with the receiver's scope, level and colour flag; clone(overrides)
\* returns a logger that has, for every option, the value in overrides
\* when the option is present there and the receiver's value when not.
C16_Frame ==
  last.op \in BuilderOps =>
    LET r == loggers[last.recv]
        n == loggers[last.ret]
    IN  /\ last.op = "scope" =>
             (n.scope = last.args[1] /\ SameExcept(n, r, {"scope"}))
        /\ last.op = "level" =>
             (n.level = last.args[1] /\ SameExcept(n, r, {"level"}))
        /\ last.op = "secrets" => SameExcept(n, r, {"secrets"})
        /\ last.op = "clone" =>
             \A k \in OptionKeys :
               IF k \in DOMAIN last.args[1]
               THEN <<n[k]>> = last.args[1][k]
               ELSE n[k] = r[k]

====
